---- MODULE Spec2Model ----
(***************************************************************************)
(* The point-in-time trade simulator of stock_system/backtest.py:          *)
(* backtest_strategy walks the signal rows in row order, resolves a buy    *)
(* bar and a sell bar in the normalized price frame and appends one trade  *)
(* per accepted signal.                                                    *)
(*                                                                         *)
(* Dates are day numbers (calendar days since an epoch), so adding a       *)
(* timedelta(days = n) is integer addition.  Floating point values are     *)
(* exact rationals [num, den].                                             *)
(***************************************************************************)
EXTENDS Integers, Sequences, FiniteSets, TLC

\* ---------------------------------------------------------------- bounds
MaxDate == 2
MaxSignals == 2
MaxPrices == 2
MaxTrades == 3
MaxCalls == 3
MaxBatch == 2

\* pd.to_datetime of a missing date: NaT.  A day number no sum of a date and
\* a hold period of the model reaches.
NaT == -999

Tickers == {"AAA", "BBB"}
Dates == 0..MaxDate
Closes == {0, 100, 110}

\* A signal row of screen_df: passes_screen is "true", "false", or "absent"
\* (the row has no such field and signal.get returns its default).
SignalRows == [ticker : Tickers, date_screened : Dates, passes_screen : {"true", "false", "absent"}]

\* A price row; the date may be missing.
PriceRows == [ticker : Tickers, date : Dates \cup {NaT}, close : Closes]

\* BacktestConfig: the dataclass declares hold_days and transaction_cost_bps and
\* validates neither, so a hold period of -1 is a configuration like any other.
Configs == [hold_days : {-1, 1, 2}, transaction_cost_bps : {0, 50}]

SeqsUpTo(S, n) == UNION {[1..k -> S] : k \in 0..n}

\* The rows of a well-formed series of one ticker: dated, with a close above 0.
SeriesRows == [ticker : {"AAA"}, date : Dates, close : Closes \ {0}]

\* The non-empty price frames a call is handed: up to MaxPrices rows of any
\* kind in any order, or MaxPrices + 1 rows of one well-formed series, in any
\* order and with repeated dates.
PriceFrames ==
    (SeqsUpTo(PriceRows, MaxPrices) \ {<<>>}) \cup [1..(MaxPrices + 1) -> SeriesRows]

\* The returns (percent) and the rows of a trade frame handed to
\* summarize_backtest: it reads return_pct; buy_date and sell_date place the
\* trade in time.
Returns == {-50, 0, 25, 100}
ResultRows ==
    {t \in [return_pct : {[num |-> n, den |-> 1] : n \in Returns}, buy_date : Dates, sell_date : Dates] :
        t.buy_date <= t.sell_date}
ResultFrames == SeqsUpTo(ResultRows, MaxTrades)

\* No summary has been returned yet.
NoSummary == [num_trades |-> -1]

\* ------------------------------------------------------------- database
\* None bound to a TEXT column: SQL NULL
Null == "NULL"

\* The tables of SCHEMA_SQL the upserts write, and the database after
\* initialize()
TableNames == {"companies", "stock_prices", "screening_results", "backtest_results"}
EmptyDb == [t \in TableNames |-> <<>>]

\* The records a caller hands to the upserts.  name stands for the value
\* columns name, sector and industry of a company; close for the value columns
\* of a price row.  A record without a ticker or a date has Null there.
CompanyRecords == [ticker : {"AAA", Null}, name : {"Apple", "Apple Inc."}]
PriceRecords ==
    [ticker : {"AAA", "BBB", Null}, date : {"d0"}, close : {100, 110}]
        \cup {[ticker |-> "AAA", date |-> Null, close |-> 100]}
ScreeningRecords == [ticker : {"AAA", Null}, date_screened : {"d0"}, score : {1, 2}]
BacktestRecords ==
    [ticker : {"AAA"}, buy_date : {"d0"}, sell_date : {"d0", "d1"}, hold_days : {1}, return_pct : {0, 10}]
Batches(records) == SeqsUpTo(records, MaxBatch)

\* -------------------------------------------------------------- screening
\* ScreeningCriteria with its default thresholds, in hundredths, and a
\* min_score of 0, 5 (the default) or 7
DefaultCriteria ==
    [min_revenue_growth_1y |-> 15, min_earnings_growth_1y |-> 15, min_profit_margin |-> 10,
     max_pe_ratio |-> 3000, max_debt_to_equity |-> 200, min_free_cash_flow |-> 0,
     min_score |-> 5]
CriteriaSet == {[DefaultCriteria EXCEPT !.min_score = k] : k \in {0, 5, 7}}

MetricNames ==
    <<"revenue_growth_1y", "earnings_growth_1y", "net_margin", "pe_ratio",
      "debt_to_equity", "free_cash_flow">>

\* The threshold each metric is checked against
Threshold(name, c) ==
    CASE name = "revenue_growth_1y" -> c.min_revenue_growth_1y
      [] name = "earnings_growth_1y" -> c.min_earnings_growth_1y
      [] name = "net_margin" -> c.min_profit_margin
      [] name = "pe_ratio" -> c.max_pe_ratio
      [] name = "debt_to_equity" -> c.max_debt_to_equity
      [] name = "free_cash_flow" -> c.min_free_cash_flow

\* A metric value (hundredths): missing (the key is absent or holds None), NaN,
\* or a number just below, at or just above the default threshold
Missing == -1000000
NotANumber == -2000000
MetricValues(name) ==
    {Missing, NotANumber} \cup
        {Threshold(name, DefaultCriteria) + k : k \in {-1, 0, 1}}
MetricsSet ==
    [revenue_growth_1y : MetricValues("revenue_growth_1y"),
     earnings_growth_1y : MetricValues("earnings_growth_1y"),
     net_margin : MetricValues("net_margin"),
     pe_ratio : MetricValues("pe_ratio"),
     debt_to_equity : MetricValues("debt_to_equity"),
     free_cash_flow : MetricValues("free_cash_flow")]

NoScreening == [score |-> -1]

\* The loop variable before the first iteration.
NoSignal == [ticker |-> "none", date_screened |-> NaT, passes_screen |-> "none"]

VARIABLES
    config,    \* the BacktestConfig of the call
    price_df,  \* the normalized price frame (line 54)
    idx,       \* number of rows iterrows has yielded
    signal,    \* the loop variable: the row iterrows yielded last (line 59)
    rows,      \* the trades appended so far (lines 58, 89)
    pc,        \* "call", "loop", "returned", "raised"
    err,       \* the exception raised, "" when none
    results,   \* the trade frame summarize_backtest is handed (line 106)
    summary,   \* the dict summarize_backtest returned (lines 108, 139)
    db,        \* the tables of the SQLite database, each in rowid order
    calls,     \* number of upsert calls made on the database
    criteria,  \* the ScreeningCriteria of a screen_stock call
    screening  \* the dict screen_stock returned

vars == <<config, price_df, idx, signal, rows, pc, err, results, summary,
          db, calls, criteria, screening>>

\* ------------------------------------------------------ float arithmetic
Abs(n) == IF n < 0 THEN 0 - n ELSE n

RECURSIVE GCD(_, _)
GCD(a, b) == IF b = 0 THEN a ELSE GCD(b, a % b)

\* The rational n / d (d # 0) in lowest terms with a positive denominator
Rat(n, d) ==
    LET g == GCD(Abs(n), Abs(d))
        sgn == IF d < 0 THEN 0 - 1 ELSE 1
    IN  [num |-> sgn * (n \div g), den |-> sgn * (d \div g)]
RatOfInt(n) == Rat(n, 1)
RatSub(a, b) == Rat(a.num * b.den - b.num * a.den, a.den * b.den)
RatMul(a, b) == Rat(a.num * b.num, a.den * b.den)
\* a / b, for b # 0
RatDiv(a, b) == Rat(a.num * b.den, a.den * b.num)

\* ------------------------------------------------------ _normalize_prices
TickerRank(t) == IF t = "AAA" THEN 0 ELSE 1

\* Row order of sort_values(["ticker", "date"]): by ticker, then by date with
\* NaT last (na_position = "last").  Strict: equal keys keep their order.
RowBefore(a, b) ==
    \/ TickerRank(a.ticker) < TickerRank(b.ticker)
    \/ /\ a.ticker = b.ticker
       /\ a.date # NaT
       /\ (b.date = NaT \/ a.date < b.date)

RECURSIVE InsertSorted(_, _)
\* r placed after every row of the sorted s that is not after it (stable)
InsertSorted(s, r) ==
    IF s = <<>> THEN <<r>>
    ELSE IF RowBefore(r, Head(s)) THEN <<r>> \o s
    ELSE <<Head(s)>> \o InsertSorted(Tail(s), r)

RECURSIVE SortValues(_)
SortValues(s) ==
    IF s = <<>> THEN <<>>
    ELSE InsertSorted(SortValues(SubSeq(s, 1, Len(s) - 1)), s[Len(s)])

_normalize_prices(p) == SortValues(p)

\* ----------------------------------------------------- _price_on_or_after
\* date > target_date
DateGt(d, target) == d # NaT /\ d > target

\* date >= target_date on Timestamps: False whenever the date is NaT
DateGe(d, target) == d # NaT /\ d >= target

\* row = subset.iloc[-1]: the last bar at or after the target
PriceOnOrAfterLast(ticker_prices, target_date) ==
    LET subset == SelectSeq(ticker_prices, LAMBDA r : DateGe(r.date, target_date))
    IN  IF subset = <<>> THEN <<>>
        ELSE <<[date |-> subset[Len(subset)].date, close |-> subset[Len(subset)].close]>>

\* None is <<>>, a result is <<[date, close]>>
_price_on_or_after(ticker_prices, target_date) ==
    LET subset == SelectSeq(ticker_prices, LAMBDA r : DateGe(r.date, target_date))
    IN  IF subset = <<>> THEN <<>>
        ELSE <<[date |-> subset[1].date, close |-> subset[1].close]>>

\* price_df[price_df["ticker"] == ticker]
TickerPrices(df, ticker) == SelectSeq(df, LAMBDA r : r.ticker = ticker)

\* ------------------------------------------------------ backtest_strategy
\* signal.get("passes_screen", False): a row without the field fails the screen
PassesDefaultFalse(s) == s.passes_screen = "true"

\* bool(signal.get("passes_screen", True))
Passes(s) == s.passes_screen # "false"

\* subset.iloc[-1] for the time exit: the last bar at or after the sell target
SellOfLastBar(ticker_prices, buy, cfg) ==
    LET target_sell_date == buy.date + cfg.hold_days
        subset == SelectSeq(ticker_prices, LAMBDA r : DateGe(r.date, target_sell_date))
        sell_row == ticker_prices[Len(ticker_prices)]
    IN  IF subset = <<>>
        THEN [date |-> sell_row.date, close |-> sell_row.close, reason_exit |-> "end_of_data"]
        ELSE [date |-> subset[Len(subset)].date, close |-> subset[Len(subset)].close, reason_exit |-> "time_exit"]

\* lines 72-83: the sell bar and the exit reason for a resolved buy bar
SellOf(ticker_prices, buy, cfg) ==
    LET target_sell_date == buy.date + cfg.hold_days
        sell_result == _price_on_or_after(ticker_prices, target_sell_date)
        sell_row == ticker_prices[Len(ticker_prices)]
    IN  IF sell_result = <<>>
        THEN [date |-> sell_row.date, close |-> sell_row.close, reason_exit |-> "end_of_data"]
        ELSE [date |-> sell_result[1].date, close |-> sell_result[1].close, reason_exit |-> "time_exit"]

\* total_cost = transaction_cost_bps / 10000: the cost charged one way only
ReturnPctOneWay(buy_price, sell_price, cfg) ==
    LET gross_return == RatDiv(RatOfInt(sell_price - buy_price), RatOfInt(buy_price))
        total_cost == RatDiv(RatOfInt(cfg.transaction_cost_bps), RatOfInt(10000))
        net_return == RatSub(gross_return, total_cost)
    IN  RatMul(net_return, RatOfInt(100))

\* lines 85-87, 98
ReturnPct(buy_price, sell_price, cfg) ==
    LET gross_return == RatDiv(RatOfInt(sell_price - buy_price), RatOfInt(buy_price))
        total_cost == RatDiv(RatOfInt(2 * cfg.transaction_cost_bps), RatOfInt(10000))
        net_return == RatSub(gross_return, total_cost)
    IN  RatMul(net_return, RatOfInt(100))

\* "reason_exit": "time_exit" whatever the branch taken
TradeRowTimeExit(s, buy, sell, cfg) ==
    [ticker |-> s.ticker,
     signal_date |-> s.date_screened,
     buy_date |-> buy.date,
     sell_date |-> sell.date,
     hold_days |-> cfg.hold_days,
     buy_price |-> buy.close,
     sell_price |-> sell.close,
     return_pct |-> ReturnPct(buy.close, sell.close, cfg),
     reason_exit |-> "time_exit"]

\* lines 89-101
TradeRow(s, buy, sell, cfg) ==
    [ticker |-> s.ticker,
     signal_date |-> s.date_screened,
     buy_date |-> buy.date,
     sell_date |-> sell.date,
     hold_days |-> cfg.hold_days,
     buy_price |-> buy.close,
     sell_price |-> sell.close,
     return_pct |-> ReturnPct(buy.close, sell.close, cfg),
     reason_exit |-> sell.reason_exit]

\* What one pass through the loop body does
Continued == [kind |-> "continue"]
Raised(e) == [kind |-> "raise", err |-> e]
Appended(t) == [kind |-> "append", trade |-> t]

\* lines 60-101, the loop body for the row s.  Line 85 divides by the buy
\* price as a Python float: ZeroDivisionError on 0.0.  Line 94 renders the sell
\* date: when the end_of_data row (the ticker's last row) has a missing date,
\* NaT.date() raises ValueError.
LoopBody(s, df, cfg) ==
    IF ~Passes(s) THEN Continued
    ELSE
        LET ticker_prices == TickerPrices(df, s.ticker)
        IN  IF ticker_prices = <<>> THEN Continued
            ELSE
                LET buy_result == _price_on_or_after(ticker_prices, s.date_screened)
                IN  IF buy_result = <<>> THEN Continued
                    ELSE
                        LET buy == buy_result[1]
                            sell == SellOf(ticker_prices, buy, cfg)
                        IN  IF buy.close = 0 THEN Raised("ZeroDivisionError")
                            ELSE IF sell.date = NaT THEN Raised("ValueError")
                            ELSE Appended(TradeRow(s, buy, sell, cfg))

\* lines 58-103 as a function of the signal rows: the trades returned, or the
\* exception that ends the call
RECURSIVE LoopRows(_, _, _)
LoopRows(sigs, df, cfg) ==
    IF sigs = <<>> THEN [rows |-> <<>>, err |-> ""]
    ELSE
        LET out == LoopBody(Head(sigs), df, cfg)
            rest == LoopRows(Tail(sigs), df, cfg)
        IN  IF out.kind = "raise" THEN [rows |-> <<>>, err |-> out.err]
            ELSE IF rest.err # "" THEN rest
            ELSE IF out.kind = "append" THEN [rows |-> <<out.trade>> \o rest.rows, err |-> ""]
            ELSE rest

Init ==
    /\ config \in Configs
    /\ price_df = <<>>
    /\ idx = 0
    /\ signal = NoSignal
    /\ rows = <<>>
    /\ pc = "call"
    /\ err = ""
    /\ results = <<>>
    /\ summary = NoSummary
    /\ db = EmptyDb
    /\ calls = 0
    /\ criteria = DefaultCriteria
    /\ screening = NoScreening

\* lines 39-52: screen_results or prices is empty, the empty frame is returned
ReturnEmpty ==
    /\ pc = "call"
    /\ pc' = "returned"
    /\ UNCHANGED <<config, price_df, idx, signal, rows, err, results, summary, db, calls, criteria, screening>>

\* lines 54-58: both frames hold rows; prices is the price frame of the call
Normalize ==
    \E prices \in PriceFrames :
        /\ pc = "call"
        /\ price_df' = _normalize_prices(prices)
        /\ pc' = "loop"
        /\ UNCHANGED <<config, idx, signal, rows, err, results, summary, db, calls, criteria, screening>>

\* lines 59-101: iterrows yields the next row s of screen_df (which holds
\* 1..MaxSignals rows) and the loop body runs for it
Iterate ==
    \E s \in SignalRows :
        /\ pc = "loop"
        /\ idx < MaxSignals
        /\ idx' = idx + 1
        /\ signal' = s
        /\ LET out == LoopBody(s, price_df, config)
           IN  /\ rows' = IF out.kind = "append" THEN Append(rows, out.trade) ELSE rows
               /\ pc' = IF out.kind = "raise" THEN "raised" ELSE "loop"
               /\ err' = IF out.kind = "raise" THEN out.err ELSE err
        /\ UNCHANGED <<config, price_df, results, summary, db, calls, criteria, screening>>

\* line 103: iterrows is exhausted, after at least one row
Return ==
    /\ pc = "loop"
    /\ idx >= 1
    /\ pc' = "returned"
    /\ UNCHANGED <<config, price_df, idx, signal, rows, err, results, summary, db, calls, criteria, screening>>

Next ==
    \/ ReturnEmpty
    \/ Normalize
    \/ Iterate
    \/ Return

Spec == Init /\ [][Next]_vars

\* ----------------------------------------------------- summarize_backtest
\* Python's None and the float NaN
None == [kind |-> "None"]
NaN == [kind |-> "NaN"]

RatAdd(a, b) == Rat(a.num * b.den + b.num * a.den, a.den * b.den)
RatLess(a, b) == a.num * b.den < b.num * a.den

\* Series.sum, Series.max and Series.min of a non-empty series of floats
RECURSIVE RatSum(_)
RatSum(f) == IF f = <<>> THEN RatOfInt(0) ELSE RatAdd(Head(f), RatSum(Tail(f)))
RatMax(f) == CHOOSE x \in {f[i] : i \in DOMAIN f} : \A i \in DOMAIN f : ~RatLess(x, f[i])
RatMin(f) == CHOOSE x \in {f[i] : i \in DOMAIN f} : \A i \in DOMAIN f : ~RatLess(f[i], x)

\* Series.mean
Mean(f) == RatDiv(RatSum(f), RatOfInt(Len(f)))

\* Series.cumprod and Series.cummax
RECURSIVE CumProd(_)
CumProd(f) ==
    IF f = <<>> THEN <<>>
    ELSE LET init == CumProd(SubSeq(f, 1, Len(f) - 1))
         IN  Append(init, IF init = <<>> THEN f[Len(f)] ELSE RatMul(init[Len(init)], f[Len(f)]))
CumMax(f) == [i \in DOMAIN f |-> RatMax(SubSeq(f, 1, i))]

\* The square of Series.std(ddof): the sum of the squared deviations from the
\* mean over len - ddof, NaN when len - ddof is not positive
Variance(f, ddof) ==
    IF Len(f) - ddof <= 0 THEN NaN
    ELSE LET m == Mean(f)
             sqr == [i \in DOMAIN f |-> RatMul(RatSub(f[i], m), RatSub(f[i], m))]
         IN  RatDiv(RatSum(sqr), RatOfInt(Len(f) - ddof))

Sign(n) == IF n > 0 THEN 1 ELSE IF n < 0 THEN 0 - 1 ELSE 0

\* The sharpe of lines 132-134 with ddof = ddof.  std > 0 is False for NaN and
\* otherwise is variance > 0.  The float (mean / std) * sqrt(252) is kept as
\* its sign and its square, 252 * mean^2 / variance.
SharpeWith(excess, ddof) ==
    LET variance == Variance(excess, ddof)
    IN  IF variance = NaN THEN None
        ELSE IF ~(variance.num > 0) THEN None
        ELSE [sign |-> Sign(Mean(excess).num),
              square |-> RatMul(RatOfInt(252), RatDiv(RatMul(Mean(excess), Mean(excess)), variance))]

\* excess.std(ddof=0): the population standard deviation
SharpePopulation(excess) == SharpeWith(excess, 0)

\* lines 132-134
Sharpe(excess) == SharpeWith(excess, 1)

\* (r >= 0).sum(): a zero return counted as a win
WinsNonNegative(r) == Cardinality({i \in DOMAIN r : r[i].num >= 0})

\* (r > 0).sum(), lines 121 and 136
Wins(r) == Cardinality({i \in DOMAIN r : r[i].num > 0})

\* stats.binomtest(wins, n, p=0.5, alternative="greater").pvalue: the chance
\* of wins or more successes in n fair trials
RECURSIVE Binomial(_, _)
Binomial(n, k) == IF k = 0 \/ k = n THEN 1 ELSE Binomial(n - 1, k - 1) + Binomial(n - 1, k)
RECURSIVE BinomialsFrom(_, _)
BinomialsFrom(n, k) == IF k > n THEN 0 ELSE Binomial(n, k) + BinomialsFrom(n, k + 1)
RECURSIVE TwoTo(_)
TwoTo(n) == IF n = 0 THEN 1 ELSE 2 * TwoTo(n - 1)
\* the chance of more than wins successes
BinomTestStrictlyGreater(wins, n) == Rat(BinomialsFrom(n, wins + 1), TwoTo(n))

BinomTestGreater(wins, n) == Rat(BinomialsFrom(n, wins), TwoTo(n))

\* The float base ** exponent - 1 (line 129), kept as its base and exponent
PowerMinusOne(base, exponent) == [base |-> base, exponent |-> exponent]

\* sharpe_ratio 0.0 for the empty frame
EmptySummaryZeroSharpe ==
    [num_trades |-> 0, avg_return_pct |-> None, win_rate |-> None,
     best_trade_pct |-> None, worst_trade_pct |-> None, sharpe_ratio |-> RatOfInt(0),
     max_drawdown_pct |-> None, cagr |-> None, win_rate_p_value |-> None]

\* lines 108-118
EmptySummary ==
    [num_trades |-> 0, avg_return_pct |-> None, win_rate |-> None,
     best_trade_pct |-> None, worst_trade_pct |-> None, sharpe_ratio |-> None,
     max_drawdown_pct |-> None, cagr |-> None, win_rate_p_value |-> None]

\* lines 106-149
summarize_backtest(res) ==
    IF res = <<>> THEN EmptySummary
    ELSE
        LET r == [i \in DOMAIN res |-> res[i].return_pct]
            wins == Wins(r)
            win_rate == Rat(wins, Len(r))
            equity == CumProd([i \in DOMAIN r |-> RatAdd(RatOfInt(1), RatDiv(r[i], RatOfInt(100)))])
            running_max == CumMax(equity)
            drawdowns == [i \in DOMAIN r |-> RatSub(RatDiv(equity[i], running_max[i]), RatOfInt(1))]
            max_drawdown == RatMin(drawdowns)
            periods == IF Len(r) > 1 THEN Len(r) ELSE 1
            cagr == PowerMinusOne(equity[Len(equity)], Rat(252, periods))
            excess == [i \in DOMAIN r |-> RatDiv(r[i], RatOfInt(100))]
        IN  [num_trades |-> Len(r),
             avg_return_pct |-> Mean(r),
             win_rate |-> win_rate,
             best_trade_pct |-> RatMax(r),
             worst_trade_pct |-> RatMin(r),
             sharpe_ratio |-> Sharpe(excess),
             max_drawdown_pct |-> RatMul(max_drawdown, RatOfInt(100)),
             cagr |-> cagr,
             win_rate_p_value |-> BinomTestGreater(wins, Len(r))]

\* A call of summarize_backtest on a trade frame
InitSummary ==
    /\ config = [hold_days |-> 1, transaction_cost_bps |-> 0]
    /\ price_df = <<>>
    /\ idx = 0
    /\ signal = NoSignal
    /\ rows = <<>>
    /\ pc = "call"
    /\ err = ""
    /\ results \in ResultFrames
    /\ summary = NoSummary
    /\ db = EmptyDb
    /\ calls = 0
    /\ criteria = DefaultCriteria
    /\ screening = NoScreening

\* lines 106-149: the summary of the frame is returned
Summarize ==
    /\ pc = "call"
    /\ summary' = summarize_backtest(results)
    /\ pc' = "returned"
    /\ UNCHANGED <<config, price_df, idx, signal, rows, err, results, db, calls, criteria, screening>>

NextSummary == Summarize

SummarySpec == InitSummary /\ [][NextSummary]_vars

\* The variables of a backtest and summary call, at rest
NoBacktest ==
    /\ config = [hold_days |-> 1, transaction_cost_bps |-> 0]
    /\ price_df = <<>>
    /\ idx = 0
    /\ signal = NoSignal
    /\ rows = <<>>
    /\ results = <<>>
    /\ summary = NoSummary

\* ------------------------------------------------------------ db.Database
\* The columns of the UNIQUE / PRIMARY KEY constraint of a table
KeyOf(t, r) ==
    CASE t = "companies" -> <<r.ticker>>
      [] t = "stock_prices" -> <<r.ticker, r.date>>
      [] t = "screening_results" -> <<r.ticker, r.date_screened>>
      [] t = "backtest_results" -> <<r.ticker, r.buy_date, r.sell_date, r.hold_days>>

\* The NOT NULL constraints of a table hold for the row.  companies.ticker is
\* TEXT PRIMARY KEY without NOT NULL, which in SQLite admits NULL.
NotNullHolds(t, r) ==
    CASE t = "companies" -> TRUE
      [] t = "stock_prices" -> r.ticker # Null /\ r.date # Null
      [] t = "screening_results" -> r.ticker # Null /\ r.date_screened # Null
      [] t = "backtest_results" -> r.ticker # Null /\ r.buy_date # Null /\ r.sell_date # Null

\* No key column of the row is NULL (hold_days is int(...), never None)
KeyNotNull(t, r) ==
    CASE t = "companies" -> r.ticker # Null
      [] t = "stock_prices" -> r.ticker # Null /\ r.date # Null
      [] t = "screening_results" -> r.ticker # Null /\ r.date_screened # Null
      [] t = "backtest_results" -> r.ticker # Null /\ r.buy_date # Null /\ r.sell_date # Null

\* Two rows conflict on the key: equal key columns, none of them NULL (NULLs
\* are distinct in a unique index)
Conflict(t, a, b) == KeyOf(t, a) = KeyOf(t, b) /\ KeyNotNull(t, a)

\* INSERT ... ON CONFLICT(key) DO UPDATE SET every other column = excluded
InsertOrUpdate(t, table, r) ==
    IF \E i \in DOMAIN table : Conflict(t, table[i], r)
    THEN [i \in DOMAIN table |-> IF Conflict(t, table[i], r) THEN r ELSE table[i]]
    ELSE Append(table, r)

RECURSIVE ExecuteRows(_, _, _)
ExecuteRows(t, table, batch) ==
    IF batch = <<>> THEN table
    ELSE ExecuteRows(t, InsertOrUpdate(t, table, Head(batch)), Tail(batch))

\* with self.connect() as conn: conn.executemany(sql, rows); conn.commit().
\* A row that breaks NOT NULL raises IntegrityError and the connection's
\* context manager rolls the whole batch back.
ExecuteMany(t, table, batch) ==
    IF \E i \in DOMAIN batch : ~NotNullHolds(t, batch[i])
    THEN [table |-> table, err |-> "IntegrityError"]
    ELSE [table |-> ExecuteRows(t, table, batch), err |-> ""]

\* lines 213-231: records without a ticker or a date are skipped
PriceRowsOf(records) == SelectSeq(records, LAMBDA r : r.ticker # Null /\ r.date # Null)

\* A Database after initialize()
InitDb ==
    /\ NoBacktest
    /\ pc = "call"
    /\ err = ""
    /\ db = EmptyDb
    /\ calls = 0
    /\ criteria = DefaultCriteria
    /\ screening = NoScreening

\* The database after executemany on table t
Executed(t, batch) == [db EXCEPT ![t] = ExecuteMany(t, db[t], batch).table]

\* lines 107-130
upsert_companies ==
    \E companies \in Batches(CompanyRecords) :
        /\ calls < MaxCalls
        /\ calls' = calls + 1
        /\ db' = Executed("companies", companies)
        /\ err' = ExecuteMany("companies", db["companies"], companies).err
        /\ UNCHANGED <<config, price_df, idx, signal, rows, pc, results, summary, criteria, screening>>

\* lines 197-236
upsert_stock_prices ==
    \E records \in Batches(PriceRecords) :
        /\ calls < MaxCalls
        /\ calls' = calls + 1
        /\ db' = Executed("stock_prices", PriceRowsOf(records))
        /\ err' = ExecuteMany("stock_prices", db["stock_prices"], PriceRowsOf(records)).err
        /\ UNCHANGED <<config, price_df, idx, signal, rows, pc, results, summary, criteria, screening>>

\* lines 238-264
upsert_screening_results ==
    \E records \in Batches(ScreeningRecords) :
        /\ calls < MaxCalls
        /\ calls' = calls + 1
        /\ db' = Executed("screening_results", records)
        /\ err' = ExecuteMany("screening_results", db["screening_results"], records).err
        /\ UNCHANGED <<config, price_df, idx, signal, rows, pc, results, summary, criteria, screening>>

\* lines 266-297
upsert_backtest_results ==
    \E records \in Batches(BacktestRecords) :
        /\ calls < MaxCalls
        /\ calls' = calls + 1
        /\ db' = Executed("backtest_results", records)
        /\ err' = ExecuteMany("backtest_results", db["backtest_results"], records).err
        /\ UNCHANGED <<config, price_df, idx, signal, rows, pc, results, summary, criteria, screening>>

NextDb ==
    \/ upsert_companies
    \/ upsert_stock_prices
    \/ upsert_screening_results
    \/ upsert_backtest_results

DbSpec == InitDb /\ [][NextDb]_vars

\* --------------------------------------------------------------- screening
\* ">" taken as ">=" and "<" as "<="
MeetsInclusive(metric_value, op, threshold) ==
    IF metric_value = Missing \/ metric_value = NotANumber THEN FALSE
    ELSE IF op \in {">", ">="} THEN metric_value >= threshold
    ELSE metric_value <= threshold

\* lines 20-31, for the operators ">", ">=", "<" and "<="
_meets(metric_value, op, threshold) ==
    IF metric_value = Missing \/ metric_value = NotANumber THEN FALSE
    ELSE IF op = ">" THEN metric_value > threshold
    ELSE IF op = ">=" THEN metric_value >= threshold
    ELSE IF op = "<" THEN metric_value < threshold
    ELSE metric_value <= threshold

\* The operator of each check of lines 35-58
CheckOp(name) == IF name \in {"pe_ratio", "debt_to_equity"} THEN "<" ELSE ">"

\* lines 34-61: the names of the checks met, in the order of the checks dict
score_metrics(metrics, c) ==
    LET met == SelectSeq(MetricNames, LAMBDA name : _meets(metrics[name], CheckOp(name), Threshold(name, c)))
    IN  [score |-> Len(met), met |-> met]

\* lines 64-79
screen_stock(ticker, date_screened, metrics, c) ==
    LET scored == score_metrics(metrics, c)
    IN  [ticker |-> ticker,
         date_screened |-> date_screened,
         metrics |-> metrics,
         score |-> scored.score,
         criteria_met |-> scored.met,
         passes_screen |-> scored.score >= c.min_score]

\* A call of screen_stock under some criteria
InitScreen ==
    /\ NoBacktest
    /\ pc = "call"
    /\ err = ""
    /\ db = EmptyDb
    /\ calls = 0
    /\ criteria \in CriteriaSet
    /\ screening = NoScreening

ScreenStock ==
    \E metrics \in MetricsSet :
        /\ pc = "call"
        /\ screening' = screen_stock("AAA", "d0", metrics, criteria)
        /\ pc' = "returned"
        /\ UNCHANGED <<config, price_df, idx, signal, rows, err, results, summary, db, calls, criteria>>

NextScreen == ScreenStock

ScreenSpec == InitScreen /\ [][NextScreen]_vars

\* ------------------------------------------------------------ properties
\* The dated bars of a ticker in the price frame, as a set
Bars(ticker) == {price_df[k] : k \in {n \in DOMAIN price_df : price_df[n].ticker = ticker /\ price_df[n].date # NaT}}
BarsFrom(ticker, target) == {b \in Bars(ticker) : b.date >= target}
MinDate(bars) == CHOOSE d \in {b.date : b \in bars} : \A b \in bars : d <= b.date
MaxDateOf(bars) == CHOOSE d \in {b.date : b \in bars} : \A b \in bars : d >= b.date

\* The trade emitted for the same ticker before trade j, 0 when there is none
PrevTrade(j) ==
    LET earlier == {i \in 1..(j - 1) : rows[i].ticker = rows[j].ticker}
    IN  IF earlier = {} THEN 0 ELSE CHOOSE i \in earlier : \A k \in earlier : k <= i

\* The holding state of a ticker: Holding(until) after its last emitted trade
IsHolding(ticker) == \E i \in DOMAIN rows : rows[i].ticker = ticker
HoldingUntil(ticker) ==
    LET mine == {i \in DOMAIN rows : rows[i].ticker = ticker}
    IN  rows[CHOOSE i \in mine : \A k \in mine : k <= i].sell_date

\* A step of the loop: one more signal row has been taken
LoopStep == pc = "loop" /\ idx' = idx + 1

\* The filing delays (calendar days) a caller configures
FilingDelays == {0, 1}

\* The configuration is one the spec allows
ValidConfig == config.hold_days > 0 /\ config.transaction_cost_bps >= 0

\* C1: the trades of one ticker never overlap in time: each trade's buy_date is
\* at or after the sell_date of the trade emitted before it for that ticker.
\* Stated for a valid configuration and signals that arrive in date order.
C1_NoOverlap ==
    ValidConfig =>
        \A j \in DOMAIN rows :
            (PrevTrade(j) # 0 /\ rows[PrevTrade(j)].signal_date <= rows[j].signal_date)
                => rows[j].buy_date >= rows[PrevTrade(j)].sell_date

\* C2: overlap guard: a passing signal dated before the holding_until of its
\* ticker is discarded: no trade, no error, the holding state unchanged.
\* Stated for a valid configuration.
C2_OverlapGuard ==
    [][(/\ LoopStep
        /\ ValidConfig
        /\ signal'.passes_screen # "false"
        /\ IsHolding(signal'.ticker)
        /\ signal'.date_screened < HoldingUntil(signal'.ticker))
       => (rows' = rows /\ pc' = "loop")]_vars

\* C3: no look-ahead on entry: for a valid configuration with whatever filing
\* delay, the buy bar
\* of every trade is the earliest bar of the ticker dated at or after
\* signal_date + filing_delay_days, and buy_price is the close of such a bar.
C3_NoLookAhead ==
    ValidConfig => \A d \in FilingDelays : \A i \in DOMAIN rows :
        LET tr == rows[i]
            eligible == BarsFrom(tr.ticker, tr.signal_date + d)
        IN  /\ tr.buy_date >= tr.signal_date + d
            /\ eligible # {}
            /\ tr.buy_date = MinDate(eligible)
            /\ \E b \in eligible : b.date = tr.buy_date /\ b.close = tr.buy_price

\* C4: every emitted trade has buy_date <= sell_date.
C4_BuyBeforeSell == \A i \in DOMAIN rows : rows[i].buy_date <= rows[i].sell_date

\* C5: exit rule: the sell bar of a trade is the earliest bar of the ticker
\* dated at or after buy_date + hold_days, with exit reason time_exit, when
\* there is such a bar; otherwise it is the latest bar of the ticker, with exit
\* reason end_of_data.  The buy bar is a bar of the series, so a latest bar
\* always exists.
C5_ExitRule ==
    \A i \in DOMAIN rows :
        LET tr == rows[i]
            series == Bars(tr.ticker)
            later == BarsFrom(tr.ticker, tr.buy_date + config.hold_days)
        IN  /\ \E b \in series : b.date = tr.buy_date /\ b.close = tr.buy_price
            /\ IF later # {}
               THEN /\ tr.reason_exit = "time_exit"
                    /\ tr.sell_date = MinDate(later)
               ELSE /\ tr.reason_exit = "end_of_data"
                    /\ tr.sell_date = MaxDateOf(series)
            /\ \E b \in series : b.date = tr.sell_date /\ b.close = tr.sell_price

\* a time_exit trade that left a later bar unused, and an end_of_data trade
C5_Witness ==
    /\ \E i \in DOMAIN rows :
        /\ rows[i].reason_exit = "time_exit"
        /\ config.hold_days > 0
        /\ \E b \in Bars(rows[i].ticker) : b.date > rows[i].sell_date
    /\ \E i \in DOMAIN rows : rows[i].reason_exit = "end_of_data"

\* C6: the hold_days field of every trade is the observed holding period,
\* sell_date - buy_date in calendar days.  Stated for a valid configuration.
C6_ActualHoldDays ==
    ValidConfig => \A i \in DOMAIN rows : rows[i].hold_days = rows[i].sell_date - rows[i].buy_date

\* C7: net_return_pct = ((sell_price - buy_price) / buy_price
\*                       - 2 * transaction_cost_bps / 10000) * 100,
\* which over the common denominator 100 * buy_price is
\* ((sell_price - buy_price) * 10000 - 2 * transaction_cost_bps * buy_price)
\*   / (100 * buy_price).
C7_NetReturn ==
    \A i \in DOMAIN rows :
        LET tr == rows[i]
        IN  /\ tr.buy_price # 0
            /\ tr.return_pct
                 = Rat((tr.sell_price - tr.buy_price) * 10000
                         - 2 * config.transaction_cost_bps * tr.buy_price,
                       100 * tr.buy_price)

\* 100 -> 110 at 50 bps: 9.0
C7_Witness ==
    \E i \in DOMAIN rows :
        /\ rows[i].buy_price = 100
        /\ rows[i].sell_price = 110
        /\ config.transaction_cost_bps = 50
        /\ rows[i].return_pct = Rat(9, 1)

\* C8: a signal with passes_screen false emits no trade and raises nothing; a
\* signal row without the field is treated as passing: when its ticker has a
\* bar at or after the signal date it is not skipped.
C8_PassesScreen ==
    [][LoopStep
       => /\ signal'.passes_screen = "false" => (rows' = rows /\ pc' = "loop")
          /\ (signal'.passes_screen = "absent" /\ BarsFrom(signal'.ticker, signal'.date_screened) # {})
               => (Len(rows') = Len(rows) + 1 \/ pc' = "raised")]_vars

\* the second signal fails the screen and was skipped although its ticker had
\* a bar to buy; the first signal has traded
C8_Witness ==
    /\ pc = "loop"
    /\ idx = 2
    /\ signal.passes_screen = "false"
    /\ BarsFrom(signal.ticker, signal.date_screened) # {}
    /\ Len(rows) = 1

\* C9: missing market data is excluded silently: a passing signal whose ticker
\* has no bar at or after its execution target (signal_date + filing_delay_days)
\* emits no trade and raises nothing, and the loop goes on; an empty signal or
\* price frame returns no trade.  Stated for a valid configuration and a
\* ticker whose bars all have a close above 0.
C9_SilentExclusion ==
    [][/\ \A d \in FilingDelays :
              (/\ LoopStep
               /\ ValidConfig
               /\ signal'.passes_screen # "false"
               /\ \A b \in Bars(signal'.ticker) : b.close > 0
               /\ BarsFrom(signal'.ticker, signal'.date_screened + d) = {})
              => (rows' = rows /\ pc' = "loop")
       /\ (pc = "call" /\ pc' = "returned") => rows' = <<>>]_vars

\* The trades of a result, as a set
TradeSet(result) == {result.rows[i] : i \in DOMAIN result.rows}

\* Two signal rows give the same set of trades, or both an exception, in
\* either row order
SameTradeSet ==
    (pc = "loop" /\ idx = 0)
        => \A s, t \in SignalRows :
               LET st == LoopRows(<<s, t>>, price_df, config)
                   ts == LoopRows(<<t, s>>, price_df, config)
               IN  /\ (st.err = "") = (ts.err = "")
                   /\ TradeSet(st) = TradeSet(ts)

\* C10: the trades do not depend on the row order of the signals, because the
\* signals of a ticker are processed in ascending signal_date order: the trades
\* of a ticker are emitted in ascending signal_date order, and two signal rows
\* give the same set of trades in either row order.  Stated for a valid
\* configuration.
C10_SignalOrder ==
    ValidConfig =>
        /\ \A i, j \in DOMAIN rows :
               (i < j /\ rows[i].ticker = rows[j].ticker)
                   => rows[i].signal_date <= rows[j].signal_date
        /\ SameTradeSet

\* The trades a call delivers for one ticker: none when the call raised
TradesOfTicker(result, ticker) ==
    IF result.err # "" THEN {}
    ELSE {result.rows[i] : i \in {n \in DOMAIN result.rows : result.rows[n].ticker = ticker}}

\* C11: per-ticker independence: the trades emitted for a ticker are the same
\* whatever signal and bars are supplied for another ticker: a run over the
\* signals of both tickers (in either order) over the whole price frame
\* delivers for a ticker the trades of a run over that ticker's signal and bars
\* alone.  Stated for a valid configuration.
C11_TickerIndependence ==
    (pc = "loop" /\ idx = 0 /\ ValidConfig)
        => \A s, t \in SignalRows :
               (s.ticker # t.ticker)
                   => LET alone == LoopRows(<<s>>, TickerPrices(price_df, s.ticker), config)
                          st == LoopRows(<<s, t>>, price_df, config)
                          ts == LoopRows(<<t, s>>, price_df, config)
                      IN  /\ TradesOfTicker(st, s.ticker) = TradesOfTicker(alone, s.ticker)
                          /\ TradesOfTicker(ts, s.ticker) = TradesOfTicker(alone, s.ticker)

\* C12: per-ticker lifecycle: a trade is emitted for a ticker only when the
\* ticker is Idle (it has no position, or the signal is dated at or after the
\* holding_until of its position), and every emitted trade is completed: it has
\* a sell date, a sell price and an exit reason of time_exit or end_of_data.
\* Stated for a valid configuration.
C12_Lifecycle ==
    [][(LoopStep /\ ValidConfig /\ Len(rows') = Len(rows) + 1)
       => LET tr == rows'[Len(rows')]
          IN  /\ ~(IsHolding(tr.ticker) /\ tr.signal_date < HoldingUntil(tr.ticker))
              /\ tr.sell_date # NaT
              /\ tr.sell_price \in Closes
              /\ tr.reason_exit \in {"time_exit", "end_of_data"}]_vars

\* C13: resolve-forward lookup: over the normalized frame, for every ticker and
\* target date the resolver returns absent when the ticker has no dated bar at
\* or after the target, and otherwise the date and close of a bar of that
\* ticker with the minimum date among its bars dated at or after the target.
C13_ResolveForward ==
    (pc = "loop")
        => \A ticker \in Tickers : \A target \in 0..(MaxDate + 1) :
               LET res == _price_on_or_after(TickerPrices(price_df, ticker), target)
                   eligible == BarsFrom(ticker, target)
               IN  IF eligible = {} THEN res = <<>>
                   ELSE /\ res # <<>>
                        /\ res[1].date >= target
                        /\ res[1].date = MinDate(eligible)
                        /\ \E b \in eligible : b.date = res[1].date /\ b.close = res[1].close

\* a series given out of date order with a bar before the target and two
\* bars, of different closes, at or after it: the resolver returns the nearer
C13_Witness ==
    /\ pc = "loop"
    /\ ValidConfig
    /\ Len(rows) = 1
    /\ \E target \in Dates :
           /\ \E b \in Bars("AAA") : b.date < target
           /\ \E b, c \in BarsFrom("AAA", target) : b.date < c.date /\ b.close # c.close
           /\ _price_on_or_after(TickerPrices(price_df, "AAA"), target)
                = <<[date |-> target, close |-> 110]>>
           /\ rows[1].signal_date = target
           /\ rows[1].buy_date = target
           /\ rows[1].buy_price = 110

\* C14: after normalization the series of each ticker is sorted ascending by
\* date and holds at most one bar per date: the dated rows of a ticker are in
\* strictly ascending date order.
C14_UniqueDates ==
    (pc = "loop")
        => \A i, j \in DOMAIN price_df :
               (/\ i < j
                /\ price_df[i].ticker = price_df[j].ticker
                /\ price_df[i].date # NaT
                /\ price_df[j].date # NaT)
                   => price_df[i].date < price_df[j].date

\* The price frame without the rows whose date is missing
DropMissing(df) == SelectSeq(df, LAMBDA r : r.date # NaT)

\* C15: a price row with a missing date is dropped: the call does not fail on
\* it, no trade buys or sells on it, and every signal is handled as over the
\* frame without such rows.  Stated for a valid configuration.
C15_BadRowsDropped ==
    /\ ValidConfig => err # "ValueError"
    /\ \A i \in DOMAIN rows : rows[i].buy_date # NaT /\ rows[i].sell_date # NaT
    /\ (pc = "loop" /\ idx = 0 /\ ValidConfig)
           => \A s \in SignalRows :
                  LoopBody(s, price_df, config) = LoopBody(s, DropMissing(price_df), config)

\* C16: the configuration is validated: a call that got past its entry (it
\* normalized the prices, or returned) runs under a configuration with
\* hold_days > 0 and transaction_cost_bps >= 0.
C16_ConfigValidated == (pc # "call") => ValidConfig

\* The trade frame in every row order
Reorderings(res) == {[i \in DOMAIN res |-> res[p[i]]] : p \in Permutations(DOMAIN res)}

\* No two trades of the frame were bought on the same day
DistinctBuyDates == \A i, j \in DOMAIN results : i # j => results[i].buy_date # results[j].buy_date

\* A summary has been returned
Summarized == pc = "returned" /\ summary # NoSummary

\* C17: summarize_backtest is invariant under reordering of its input trades:
\* every row order of the same trades (bought on distinct days, so that the
\* order by buy_date is one order) yields the same value for every field.
C17_OrderInvariant ==
    (Summarized /\ DistinctBuyDates)
        => \A q \in Reorderings(results) : summarize_backtest(q) = summary

\* C18: for an empty trade frame summarize_backtest returns num_trades = 0 and
\* None for every other field.
C18_EmptySummary ==
    (Summarized /\ results = <<>>)
        => summary = [num_trades |-> 0, avg_return_pct |-> None, win_rate |-> None,
                      best_trade_pct |-> None, worst_trade_pct |-> None,
                      sharpe_ratio |-> None, max_drawdown_pct |-> None,
                      cagr |-> None, win_rate_p_value |-> None]

\* the empty frame has been summarized
C18_Witness == Summarized /\ results = <<>> /\ summary.num_trades = 0 /\ summary.cagr = None

\* elapsed_days = last sell_date - first buy_date over the trades sorted by
\* buy_date, and the final equity, the product of the 1 + return_pct / 100
ElapsedDays ==
    LET first == CHOOSE i \in DOMAIN results : \A k \in DOMAIN results : results[i].buy_date <= results[k].buy_date
        last == CHOOSE i \in DOMAIN results : \A k \in DOMAIN results : results[i].buy_date >= results[k].buy_date
    IN  results[last].sell_date - results[first].buy_date
EquityFinal ==
    LET equity == CumProd([i \in DOMAIN results |-> RatAdd(RatOfInt(1), RatDiv(results[i].return_pct, RatOfInt(100)))])
    IN  equity[Len(equity)]

\* C19: cagr is annualized by calendar time: for a non-empty frame (trades
\* bought on distinct days) it is None when elapsed_days <= 0 and otherwise
\* equity_final^(365 / elapsed_days) - 1.  Two powers of a positive base are
\* equal exactly when the base is 1 or the exponents are equal.
C19_CagrByCalendarTime ==
    (Summarized /\ results # <<>> /\ DistinctBuyDates)
        => IF ElapsedDays <= 0 THEN summary.cagr = None
           ELSE /\ summary.cagr # None
                /\ summary.cagr.base = EquityFinal
                /\ (EquityFinal = RatOfInt(1) \/ summary.cagr.exponent = Rat(365, ElapsedDays))

C21_SummaryStatistics ==
    (Summarized /\ results # <<>>)
        => LET r == [i \in DOMAIN results |-> results[i].return_pct]
               n == Len(results)
               positive == {i \in DOMAIN r : RatLess(RatOfInt(0), r[i])}
           IN  /\ summary.num_trades = n
               /\ summary.win_rate = Rat(Cardinality(positive), n)
               /\ RatMul(summary.avg_return_pct, RatOfInt(n)) = RatSum(r)
               /\ \E i \in DOMAIN r : summary.best_trade_pct = r[i]
               /\ \A i \in DOMAIN r : ~RatLess(summary.best_trade_pct, r[i])
               /\ \E i \in DOMAIN r : summary.worst_trade_pct = r[i]
               /\ \A i \in DOMAIN r : ~RatLess(r[i], summary.worst_trade_pct)
               /\ ~RatLess(summary.avg_return_pct, summary.worst_trade_pct)
               /\ ~RatLess(summary.best_trade_pct, summary.avg_return_pct)
               /\ ~RatLess(summary.win_rate, RatOfInt(0))
               /\ ~RatLess(RatOfInt(1), summary.win_rate)

\* a win, a loss and a zero return: one win in three
C21_Witness ==
    /\ Summarized
    /\ Len(results) = 3
    /\ {results[i].return_pct : i \in DOMAIN results} = {RatOfInt(25), RatOfInt(-50), RatOfInt(0)}
    /\ summary.win_rate = Rat(1, 3)
    /\ summary.best_trade_pct = RatOfInt(25)
    /\ summary.worst_trade_pct = RatOfInt(-50)

\* The trades of the frame in ascending buy_date order
TimeSorted ==
    CHOOSE q \in Reorderings(results) :
        \A i, j \in DOMAIN q : i < j => q[i].buy_date <= q[j].buy_date

\* C22: max_drawdown_pct = 100 * min over t of (equity_t / running_max_t - 1)
\* over the trades sorted by buy_date (bought on distinct days); it is never
\* above 0, and it is 0 exactly when the equity curve never falls below an
\* earlier value.
C22_MaxDrawdown ==
    (Summarized /\ results # <<>> /\ DistinctBuyDates)
        => LET sorted == TimeSorted
               equity == CumProd([i \in DOMAIN sorted |-> RatAdd(RatOfInt(1), RatDiv(sorted[i].return_pct, RatOfInt(100)))])
               drawdown(t) ==
                   LET running_max == CHOOSE x \in {equity[k] : k \in 1..t} : \A k \in 1..t : ~RatLess(x, equity[k])
                   IN  RatSub(RatDiv(equity[t], running_max), RatOfInt(1))
               falls == \E t, u \in DOMAIN equity : t < u /\ RatLess(equity[u], equity[t])
           IN  /\ \E t \in DOMAIN equity : summary.max_drawdown_pct = RatMul(RatOfInt(100), drawdown(t))
               /\ \A t \in DOMAIN equity : ~RatLess(RatMul(RatOfInt(100), drawdown(t)), summary.max_drawdown_pct)
               /\ ~RatLess(RatOfInt(0), summary.max_drawdown_pct)
               /\ (summary.max_drawdown_pct = RatOfInt(0)) = ~falls

RECURSIVE Factorial(_)
Factorial(n) == IF n = 0 THEN 1 ELSE n * Factorial(n - 1)
RECURSIVE BinomialTail(_, _)
\* the sum over k from w to n of C(n, k)
BinomialTail(n, w) ==
    IF w > n THEN 0
    ELSE (Factorial(n) \div (Factorial(w) * Factorial(n - w))) + BinomialTail(n, w + 1)

\* C23: win_rate_p_value is the one-sided exact binomial tail, the sum over k
\* from w to n of C(n, k) / 2^n for w wins in n trades; it is 1 when w = 0, and
\* turning one trade that is not a win into a win never increases it.
C23_BinomialTail ==
    (Summarized /\ results # <<>>)
        => LET n == Len(results)
               w == Cardinality({i \in DOMAIN results : RatLess(RatOfInt(0), results[i].return_pct)})
           IN  /\ summary.win_rate_p_value = Rat(BinomialTail(n, w), 2 ^ n)
               /\ (w = 0) => summary.win_rate_p_value = RatOfInt(1)
               /\ \A i \in DOMAIN results :
                      ~RatLess(RatOfInt(0), results[i].return_pct)
                          => LET more == [results EXCEPT ![i].return_pct = RatOfInt(25)]
                             IN  ~RatLess(summary.win_rate_p_value,
                                          summarize_backtest(more).win_rate_p_value)

\* two wins in three trades: 4 / 8
C23_Witness ==
    /\ Summarized
    /\ Len(results) = 3
    /\ Cardinality({i \in DOMAIN results : results[i].return_pct.num > 0}) = 2
    /\ summary.win_rate_p_value = Rat(1, 2)

\* C27: a buy bar with close 0 is treated as missing data: the call raises no
\* division by zero and no emitted trade has buy_price = 0.  Stated for a valid
\* configuration.
C27_ZeroBuyPrice ==
    ValidConfig =>
        /\ err # "ZeroDivisionError"
        /\ \A i \in DOMAIN rows : rows[i].buy_price # 0

\* Every row of the ticker in the price frame has a date and a close above 0
CleanSeries(ticker) ==
    \A k \in DOMAIN price_df :
        price_df[k].ticker = ticker => (price_df[k].date # NaT /\ price_df[k].close > 0)

C29_ExitReason ==
    \A i \in DOMAIN rows :
        LET tr == rows[i]
            held == tr.sell_date - tr.buy_date
        IN  /\ (tr.reason_exit = "time_exit") = (held >= config.hold_days)
            /\ (tr.reason_exit = "end_of_data") = (held < config.hold_days)
            /\ (tr.reason_exit = "end_of_data")
                   => /\ tr.sell_date = MaxDateOf(Bars(tr.ticker))
                      /\ (held = 0 /\ Cardinality({b \in Bars(tr.ticker) : b.date = tr.buy_date}) = 1)
                             => tr.return_pct = Rat(0 - config.transaction_cost_bps, 50)

\* a zero-day end_of_data trade at 50 bps returns -1 percent, next to a
\* time_exit trade of the same ticker
C29_Witness ==
    /\ \E i \in DOMAIN rows :
           /\ rows[i].reason_exit = "end_of_data"
           /\ rows[i].sell_date = rows[i].buy_date
           /\ config.transaction_cost_bps = 50
           /\ config.hold_days > 0
           /\ rows[i].return_pct = Rat(-1, 1)
    /\ \E i \in DOMAIN rows :
           /\ rows[i].reason_exit = "time_exit"
           /\ rows[i].sell_date - rows[i].buy_date > config.hold_days

\* C24: upserts keep one row per key: after an upsert call no table holds two
\* rows with the same key columns, and repeating the upsert changes nothing:
\* executing the batch of the call a second time leaves the table as it is.
C24_OneRowPerKey ==
    [][(calls' = calls + 1)
       => /\ \A t \in TableNames : \A i, j \in DOMAIN db'[t] :
                 i # j => KeyOf(t, db'[t][i]) # KeyOf(t, db'[t][j])
          /\ \A batch \in Batches(CompanyRecords) :
                 (db' = Executed("companies", batch))
                     => ExecuteMany("companies", db'["companies"], batch).table = db'["companies"]]_vars

\* C25: foreign-key enforcement: every row of stock_prices refers to a ticker
\* that has a row in companies, and an upsert call that adds a price row has
\* raised nothing only if so.
C25_ForeignKey ==
    \A i \in DOMAIN db["stock_prices"] :
        \E j \in DOMAIN db["companies"] :
            db["companies"][j].ticker = db["stock_prices"][i].ticker

\* A screening has been returned
Screened == pc = "returned" /\ screening # NoScreening

\* A metric meets its criterion: a number strictly above its minimum, or
\* strictly below its maximum for pe_ratio and debt_to_equity
Met(name) ==
    LET v == screening.metrics[name]
    IN  /\ v # Missing
        /\ v # NotANumber
        /\ IF name \in {"pe_ratio", "debt_to_equity"}
           THEN v < Threshold(name, criteria)
           ELSE v > Threshold(name, criteria)

\* C26: the score of screen_stock is the number of the six criteria the metrics
\* meet, criteria_met lists exactly those, 0 <= score <= 6, and passes_screen
\* is true exactly when score >= min_score.
C26_ScreenScore ==
    Screened
        => LET names == {MetricNames[i] : i \in DOMAIN MetricNames}
               met == {name \in names : Met(name)}
           IN  /\ screening.score = Cardinality(met)
               /\ screening.score = Len(screening.criteria_met)
               /\ {screening.criteria_met[i] : i \in DOMAIN screening.criteria_met} = met
               /\ screening.score >= 0
               /\ screening.score <= 6
               /\ screening.passes_screen = (screening.score >= criteria.min_score)

\* five criteria met and the sixth metric exactly at its threshold: score 5,
\* which passes a min_score of 5
C26_Witness ==
    /\ Screened
    /\ criteria.min_score = 5
    /\ screening.metrics.pe_ratio = criteria.max_pe_ratio
    /\ screening.score = 5
    /\ screening.passes_screen
    /\ Len(screening.criteria_met) = 5

====
